---- MODULE Spec2Model ----
(***************************************************************************)
(* The "List Analysis" page of myanimestats (src/pages/1_Analyse.py).      *)
(*                                                                         *)
(* The page is one synchronous script.  After analyse() has returned the   *)
(* table user_animes, the script computes its statistics one after the     *)
(* other, top to bottom: the watched and to-watch durations and their      *)
(* ratio, the four score box plots, the rank-scaled popularity-bias table  *)
(* and its normie-ness scalar, and the two co-occurrence tables.  An       *)
(* exception raised by one statement is caught nowhere in the script, so   *)
(* it ends the run at that statement.                                      *)
(*                                                                         *)
(* Encoding of the polars / Python values:                                 *)
(*   - a null integer, score or duration is None (-1): episode counts,     *)
(*     scores and durations of the table are never negative;               *)
(*   - durations are whole minutes;                                        *)
(*   - a null tag is NoneTag and a null tag list is NoneList;              *)
(*   - a float that results from a division is the exact fraction          *)
(*     [num, den] with den >= 0; den = 0 is the float NaN (0.0 / 0).       *)
(***************************************************************************)
EXTENDS Integers, Sequences, FiniteSets, Bags, TLC

VARIABLES
    user_animes,        \* the table returned by analyse(), a sequence of rows
    pc,                 \* the statement of the page script that runs next
    watched_duration,   \* line 113
    to_watch_duration,  \* line 119
    watched_ratio,      \* the fraction written at line 133
    box_data,           \* key -> box_data of score_box_plot(key)
    unpopular_data,     \* line 252
    normie_ness,        \* line 287
    occ_data,           \* feature -> occ_data of draw_co_occurrence(feature)
    page,               \* what the run has written to the page so far
    error               \* the exception that ended the run, or NoError

vars == <<user_animes, pc, watched_duration, to_watch_duration, watched_ratio,
          box_data, unpopular_data, normie_ness, occ_data, page, error>>

----------------------------------------------------------------------------
(* Values *)

None == -1
NoneTag == "None"
NoneList == <<NoneTag>>
NoError == "none"

\* Tag values in the order Python's sorted() gives them (string order).
TagSeq == <<"Action", "Comedy", "Drama">>
Tags == {TagSeq[i] : i \in 1..Len(TagSeq)}
TagIndex(tag) == CHOOSE i \in 1..Len(TagSeq) : TagSeq[i] = tag

\* The columns of user_animes the page's statistics read.
Row(ep, uwe, dur, avg, usr, g, t, s, d) ==
    [episodes |-> ep, user_watch_episodes |-> uwe, episode_avg_duration |-> dur,
     scored_avg |-> avg, user_scored |-> usr,
     genres |-> g, themes |-> t, studios |-> s, demographics |-> d]

Keys == {"genres", "themes", "studios", "demographics"}
Features == {"genres", "themes"}

----------------------------------------------------------------------------
(* Fractions: the result of a float division *)

\* The only division by zero the page's floats meet is 0.0 / 0 (rank - 1 is 0
\* when count - 1 is 0), which is NaN; every operation on NaN gives NaN.
NaN == [num |-> 0, den |-> 0]
Frac(n, d) == IF d = 0 THEN NaN ELSE [num |-> n, den |-> d]
IsNaN(q) == q.den = 0
FracSub(a, b) ==
    IF IsNaN(a) \/ IsNaN(b) THEN NaN
    ELSE IF a.den = b.den THEN Frac(a.num - b.num, a.den)
    ELSE Frac(a.num * b.den - b.num * a.den, a.den * b.den)
FracAdd(a, b) ==
    IF IsNaN(a) \/ IsNaN(b) THEN NaN
    ELSE IF a.den = b.den THEN Frac(a.num + b.num, a.den)
    ELSE Frac(a.num * b.den + b.num * a.den, a.den * b.den)
FracAbs(a) == Frac(IF a.num < 0 THEN -a.num ELSE a.num, a.den)
FracScale(k, a) == Frac(k * a.num, a.den)
\* a < b and a = b on floats: every comparison with NaN is false.
FracLess(a, b) == ~IsNaN(a) /\ ~IsNaN(b) /\ a.num * b.den < b.num * a.den
FracEq(a, b) == ~IsNaN(a) /\ ~IsNaN(b) /\ a.num * b.den = b.num * a.den

----------------------------------------------------------------------------
(* polars helpers *)

\* DataFrame.filter
RECURSIVE FilterRows(_, _)
FilterRows(t, keep) ==
    IF t = <<>> THEN <<>>
    ELSE IF keep[1] THEN <<Head(t)>> \o FilterRows(Tail(t), Tail(keep))
    ELSE FilterRows(Tail(t), Tail(keep))

\* Arithmetic on a nullable column: null in, null out.
NullMul(a, b) == IF a = None \/ b = None THEN None ELSE a * b

\* pl.max_horizontal: the greatest non-null value, null when both are null.
max_horizontal(a, b) ==
    IF a = None THEN b
    ELSE IF b = None THEN a
    ELSE IF a >= b THEN a ELSE b

\* DataFrame.sum().item() of one column: nulls are skipped, no value sums to 0.
RECURSIVE ColumnSum(_)
ColumnSum(col) ==
    IF col = <<>> THEN 0
    ELSE (IF Head(col) = None THEN 0 ELSE Head(col)) + ColumnSum(Tail(col))

----------------------------------------------------------------------------
(* Lines 113-134: watched episodes *)

WatchedColumnRemaining(t) ==
    LET f == FilterRows(t, [i \in 1..Len(t) |-> t[i].user_watch_episodes # None])
    IN  [i \in 1..Len(f) |->
            NullMul(max_horizontal(f[i].episodes, f[i].user_watch_episodes)
                        - f[i].user_watch_episodes,
                    f[i].episode_avg_duration)]

\* The column summed at line 116.
WatchedColumn(t) ==
    LET f == FilterRows(t, [i \in 1..Len(t) |-> t[i].user_watch_episodes # None])
    IN  [i \in 1..Len(f) |->
            NullMul(f[i].user_watch_episodes, f[i].episode_avg_duration)]

WatchedDuration(t) == ColumnSum(WatchedColumn(t))

ToWatchColumnEpisodes(t) ==
    [i \in 1..Len(t) |-> NullMul(t[i].episodes, t[i].episode_avg_duration)]

\* The column summed at line 124.
ToWatchColumn(t) ==
    [i \in 1..Len(t) |->
        NullMul(max_horizontal(t[i].episodes, t[i].user_watch_episodes),
                t[i].episode_avg_duration)]

ToWatchDuration(t) == ColumnSum(ToWatchColumn(t))

----------------------------------------------------------------------------
(* Lines 200-221: score_box_plot *)

threshold == 8

\* DataFrame.explode(key) of the selected columns: one row per element of the
\* list; a null list and an empty list both give one row with a null key.
RECURSIVE ExplodeKey(_, _)
ExplodeKey(t, key) ==
    IF t = <<>> THEN <<>>
    ELSE LET r == Head(t)
             l == r[key]
         IN  (IF l = NoneList \/ l = <<>>
              THEN <<[user_scored |-> r.user_scored, key |-> NoneTag]>>
              ELSE [j \in 1..Len(l) |->
                       [user_scored |-> r.user_scored, key |-> l[j]]])
             \o ExplodeKey(Tail(t), key)

\* group_by(key).all(): the user_scored values of the rows of one key.
RECURSIVE GroupScores(_, _)
GroupScores(e, k) ==
    IF e = <<>> THEN <<>>
    ELSE (IF Head(e).key = k THEN <<Head(e).user_scored>> ELSE <<>>)
         \o GroupScores(Tail(e), k)

RECURSIVE SeqSum(_)
SeqSum(s) == IF s = <<>> THEN 0 ELSE Head(s) + SeqSum(Tail(s))

RECURSIVE SeqToBag(_)
SeqToBag(s) == IF s = <<>> THEN EmptyBag ELSE SetToBag({Head(s)}) (+) SeqToBag(Tail(s))

GroupKeptOffByOne(k, scores) == k # NoneTag /\ Len(scores) >= threshold - 1

\* The filter of lines 208-211.
GroupKept(k, scores) == k # NoneTag /\ Len(scores) >= threshold

\* sort("mean_score", key, descending=True): g comes before h.
BoxBefore(g, h) ==
    \/ FracLess(h.mean_score, g.mean_score)
    \/ /\ FracEq(h.mean_score, g.mean_score)
       /\ TagIndex(g.key) > TagIndex(h.key)

RECURSIVE SortGroups(_)
SortGroups(S) ==
    IF S = {} THEN <<>>
    ELSE LET g == CHOOSE x \in S : \A y \in S \ {x} : BoxBefore(x, y)
         IN  <<g>> \o SortGroups(S \ {g})

\* box_data.  After the last explode the rows of one key are contiguous and
\* share key and mean_score; the sort leaves their relative order open, so a
\* key's rows are held as the bag of their user_scored values.
ScoreBoxData(t, key) ==
    LET f == FilterRows(t, [i \in 1..Len(t) |-> t[i].user_scored # None])
        e == ExplodeKey(f, key)
        ks == {e[i].key : i \in 1..Len(e)}
        kept == {k \in ks : GroupKept(k, GroupScores(e, k))}
    IN  SortGroups({[key |-> k,
                     user_scored |-> SeqToBag(GroupScores(e, k)),
                     mean_score |-> Frac(SeqSum(GroupScores(e, k)),
                                         Len(GroupScores(e, k)))] : k \in kept})

----------------------------------------------------------------------------
(* Lines 247-290: rank-scaled scores, unpopular opinions, normie-ness *)

\* Series.rank(descending=True), method "average" (the default), doubled to
\* stay an integer: entries that tie share the mean of the ranks they span.
Rank2Ordinal(col, i) ==
    2 * (Cardinality({j \in 1..Len(col) : col[j] > col[i]})
         + Cardinality({j \in 1..i : col[j] = col[i]}))

Rank2(col, i) ==
    2 * Cardinality({j \in 1..Len(col) : col[j] > col[i]})
    + Cardinality({j \in 1..Len(col) : col[j] = col[i]}) + 1

\* Series.count(): the number of non-null values.
Count(col) == Cardinality({j \in 1..Len(col) : col[j] # None})

\* 1 - (col.rank(descending=True) - 1) / (col.count() - 1)
scale_scores(col) ==
    [i \in 1..Len(col) |->
        FracSub(Frac(1, 1), Frac(Rank2(col, i) - 2, 2 * (Count(col) - 1)))]

\* The rows of unpopular_data before the sort of line 264.
UnpopularRows(t) ==
    LET f == FilterRows(t, [i \in 1..Len(t) |->
                 t[i].scored_avg # None /\ t[i].user_scored # None])
        us == scale_scores([i \in 1..Len(f) |-> f[i].user_scored])
        as == scale_scores([i \in 1..Len(f) |-> f[i].scored_avg])
    IN  [i \in 1..Len(f) |->
            [scored_avg |-> f[i].scored_avg,
             user_scored |-> f[i].user_scored,
             user_scored_scaled |-> us[i],
             scored_avg_scaled |-> as[i],
             score_difference |-> FracSub(us[i], as[i]),
             score_difference_abs |-> FracAbs(FracSub(us[i], as[i]))]]

\* sort(..., descending=True) keeps no order among equal keys: every
\* arrangement of the rows in which key (one sort key per row) descends is a
\* possible result.
SortedDescending(rows, key) ==
    IF rows = <<>> THEN {<<>>}
    ELSE {[i \in 1..Len(rows) |-> rows[p[i]]] :
             p \in {q \in Permutations(1..Len(rows)) :
                       \A i \in 1..(Len(rows) - 1) :
                           ~FracLess(key[q[i]], key[q[i + 1]])}}

\* The possible values of unpopular_data.
UnpopularData(t) ==
    LET rows == UnpopularRows(t)
    IN  SortedDescending(rows,
            [i \in 1..Len(rows) |-> rows[i].score_difference_abs])

RECURSIVE FracSum(_)
FracSum(col) ==
    IF Len(col) = 1 THEN col[1] ELSE FracAdd(Head(col), FracSum(Tail(col)))

\* Series.mean() of a non-empty float column.
Mean(col) == LET s == FracSum(col) IN Frac(s.num, s.den * Len(col))

\* 1 - (mean * 2)
NormieNess(u) ==
    FracSub(Frac(1, 1),
            FracScale(2, Mean([i \in 1..Len(u) |-> u[i].score_difference_abs])))

----------------------------------------------------------------------------
(* Lines 332-360: co_occurrence, draw_co_occurrence *)

\* sorted(row)
RECURSIVE Insert(_, _)
Insert(x, s) ==
    IF s = <<>> THEN <<x>>
    ELSE IF TagIndex(x) <= TagIndex(Head(s)) THEN <<x>> \o s
    ELSE <<Head(s)>> \o Insert(x, Tail(s))

RECURSIVE sorted(_)
sorted(row) == IF row = <<>> THEN <<>> ELSE Insert(Head(row), sorted(Tail(row)))

\* itertools.combinations(s, 2): the pairs of positions i < j, in order.
RECURSIVE Combinations(_)
Combinations(s) ==
    IF Len(s) < 2 THEN <<>>
    ELSE [j \in 1..(Len(s) - 1) |-> [feature1 |-> s[1], feature2 |-> s[j + 1]]]
         \o Combinations(Tail(s))

\* The list co_occurrences built by lines 335-343.
RECURSIVE CoOccurrences(_)
CoOccurrences(data) ==
    IF data = <<>> THEN <<>>
    ELSE Combinations(sorted(Head(data))) \o CoOccurrences(Tail(data))

\* pl.DataFrame([]) has no columns, so group_by(["feature1", "feature2"])
\* raises ColumnNotFoundError.
CoOccurrenceRaises(data) == CoOccurrences(data) = <<>>

\* group_by(["feature1", "feature2"]).agg(pl.len().alias("count")), one row
\* per pair, in an arbitrary order.
CountedPairs(data) ==
    LET c == CoOccurrences(data)
        ps == {c[i] : i \in 1..Len(c)}
    IN  {[feature1 |-> q.feature1, feature2 |-> q.feature2,
          count |-> Cardinality({i \in 1..Len(c) : c[i] = q})] : q \in ps}

RECURSIVE SetToSeq(_)
SetToSeq(S) ==
    IF S = {} THEN <<>>
    ELSE LET x == CHOOSE x \in S : TRUE IN <<x>> \o SetToSeq(S \ {x})

\* co_occurrence(data), when it does not raise.
co_occurrence(data) ==
    LET rows == SetToSeq(CountedPairs(data))
    IN  SortedDescending(rows, [i \in 1..Len(rows) |-> Frac(rows[i].count, 1)])

\* The argument draw_co_occurrence gives co_occurrence (line 359).
FeatureColumn(t, feature) ==
    LET f == FilterRows(t, [i \in 1..Len(t) |-> t[i][feature] # NoneList])
    IN  [i \in 1..Len(f) |-> f[i][feature]]

----------------------------------------------------------------------------
(* The page script *)

\* The statements of the script after "Launch analysis", in source order.
Script == <<"durations", "ratio", "box_genres", "box_themes", "box_studios",
            "box_demographics", "unpopular", "normie", "occ_genres",
            "occ_themes", "done">>

PcAfter(l) == Script[(CHOOSE i \in 1..Len(Script) : Script[i] = l) + 1]

BoxPc(key) ==
    CASE key = "genres" -> "box_genres"
      [] key = "themes" -> "box_themes"
      [] key = "studios" -> "box_studios"
      [] key = "demographics" -> "box_demographics"

OccPc(feature) ==
    CASE feature = "genres" -> "occ_genres"
      [] feature = "themes" -> "occ_themes"

Init ==
    /\ user_animes = <<>>
    /\ pc = "input"
    /\ watched_duration = None
    /\ to_watch_duration = None
    /\ watched_ratio = NaN
    /\ box_data = [k \in Keys |-> <<>>]
    /\ unpopular_data = <<>>
    /\ normie_ness = NaN
    /\ occ_data = [f \in Features |-> <<>>]
    /\ page = {}
    /\ error = NoError

\* analyse() (lines 50-59) returns the table; its rows come from the user's
\* list and the anime database, one row per anime.
Load(Rows, max) ==
    /\ pc = "input"
    /\ Len(user_animes) < max
    /\ \E r \in Rows : user_animes' = Append(user_animes, r)
    /\ UNCHANGED <<pc, watched_duration, to_watch_duration, watched_ratio,
                   box_data, unpopular_data, normie_ness, occ_data, page, error>>

\* The same, with the tables enumerated up to the order of their rows (rows
\* are appended in the order of RowSeq): score_box_plot filters, groups and
\* sorts, and the order of the rows of user_animes does not reach box_data.
LoadInOrder(RowSeq, max) ==
    /\ pc = "input"
    /\ Len(user_animes) < max
    /\ \E k \in 1..Len(RowSeq) :
          /\ IF user_animes = <<>> THEN TRUE
             ELSE \E j \in 1..k : RowSeq[j] = user_animes[Len(user_animes)]
          /\ user_animes' = Append(user_animes, RowSeq[k])
    /\ UNCHANGED <<pc, watched_duration, to_watch_duration, watched_ratio,
                   box_data, unpopular_data, normie_ness, occ_data, page, error>>

\* The script reaches statement `start` with the table it was given.
Enter(start) ==
    /\ pc = "input"
    /\ pc' = start
    /\ UNCHANGED <<user_animes, watched_duration, to_watch_duration,
                   watched_ratio, box_data, unpopular_data, normie_ness,
                   occ_data, page, error>>

\* Lines 113-126.
ComputeDurations ==
    /\ pc = "durations" /\ error = NoError
    /\ watched_duration' = WatchedDuration(user_animes)
    /\ to_watch_duration' = ToWatchDuration(user_animes)
    /\ pc' = PcAfter(pc)
    /\ UNCHANGED <<user_animes, watched_ratio, box_data, unpopular_data,
                   normie_ness, occ_data, page, error>>

\* Lines 128-134: the hours are written, then the ratio; timedelta / timedelta
\* raises ZeroDivisionError on a zero divisor.
WriteWatched ==
    /\ pc = "ratio" /\ error = NoError
    /\ IF to_watch_duration = 0
       THEN /\ error' = "ZeroDivisionError"
            /\ page' = page \cup {<<"watched", "hours">>}
            /\ UNCHANGED <<pc, watched_ratio>>
       ELSE /\ watched_ratio' = Frac(watched_duration, to_watch_duration)
            /\ page' = page \cup {<<"watched", "hours">>, <<"watched", "ratio">>}
            /\ pc' = PcAfter(pc)
            /\ UNCHANGED error
    /\ UNCHANGED <<user_animes, watched_duration, to_watch_duration, box_data,
                   unpopular_data, normie_ness, occ_data>>

\* Lines 242-245: one call of score_box_plot.
ScoreBoxPlot(key) ==
    /\ pc = BoxPc(key) /\ error = NoError
    /\ box_data' = [box_data EXCEPT ![key] = ScoreBoxData(user_animes, key)]
    /\ page' = page \cup {<<"box", key>>}
    /\ pc' = PcAfter(pc)
    /\ UNCHANGED <<user_animes, watched_duration, to_watch_duration,
                   watched_ratio, unpopular_data, normie_ness, occ_data, error>>

\* Lines 252-285: unpopular_data and its table on the page.
Unpopular ==
    /\ pc = "unpopular" /\ error = NoError
    /\ unpopular_data' \in UnpopularData(user_animes)
    /\ page' = page \cup {<<"unpopular", "table">>}
    /\ pc' = PcAfter(pc)
    /\ UNCHANGED <<user_animes, watched_duration, to_watch_duration,
                   watched_ratio, box_data, normie_ness, occ_data, error>>

\* Lines 287-330: Series.mean() of an empty column is None, and None * 2
\* raises TypeError; otherwise normie-ness and the scatter chart are written.
Normie ==
    /\ pc = "normie" /\ error = NoError
    /\ IF unpopular_data = <<>>
       THEN /\ error' = "TypeError"
            /\ UNCHANGED <<pc, normie_ness, page>>
       ELSE /\ normie_ness' = NormieNess(unpopular_data)
            /\ page' = page \cup {<<"normie", "ness">>, <<"unpopular", "chart">>}
            /\ pc' = PcAfter(pc)
            /\ UNCHANGED error
    /\ UNCHANGED <<user_animes, watched_duration, to_watch_duration,
                   watched_ratio, box_data, unpopular_data, occ_data>>

\* Lines 383-384: one call of draw_co_occurrence.
DrawCoOccurrence(feature) ==
    /\ pc = OccPc(feature) /\ error = NoError
    /\ LET data == FeatureColumn(user_animes, feature)
       IN  IF CoOccurrenceRaises(data)
           THEN /\ error' = "ColumnNotFoundError"
                /\ UNCHANGED <<pc, occ_data, page>>
           ELSE /\ \E o \in co_occurrence(data) :
                      occ_data' = [occ_data EXCEPT ![feature] = o]
                /\ page' = page \cup {<<"co_occurrence", feature>>}
                /\ pc' = PcAfter(pc)
                /\ UNCHANGED error
    /\ UNCHANGED <<user_animes, watched_duration, to_watch_duration,
                   watched_ratio, box_data, unpopular_data, normie_ness>>

----------------------------------------------------------------------------
(* Watched episodes (lines 113-134) on every small table *)

MaxDurRows == 3

DurRow(ep, uwe, dur) ==
    Row(ep, uwe, dur, None, None, NoneList, NoneList, NoneList, NoneList)

DurRows ==
    {DurRow(ep, uwe, 24) : ep \in {None, 0, 12}, uwe \in {None, 0, 5, 13}}
    \cup {DurRow(ep, uwe, None) : ep \in {None, 12}, uwe \in {None, 5}}

NextDur ==
    \/ Load(DurRows, MaxDurRows)
    \/ Enter("durations")
    \/ ComputeDurations
    \/ WriteWatched

SpecDur == Init /\ [][NextDur]_vars

\* The script has run statement l to its end.
Passed(l) ==
    /\ pc # "input"
    /\ (CHOOSE i \in 1..Len(Script) : Script[i] = pc)
         > (CHOOSE i \in 1..Len(Script) : Script[i] = l)

RECURSIVE SumOver(_, _)
SumOver(I, term) ==
    IF I = {} THEN 0
    ELSE LET i == CHOOSE i \in I : TRUE IN term[i] + SumOver(I \ {i}, term)

\* The table without its row i, and with row i's user_watch_episodes set to k.
WithoutRow(t, i) == [j \in 1..(Len(t) - 1) |-> IF j < i THEN t[j] ELSE t[j + 1]]
WithWatched(t, i, k) == [t EXCEPT ![i].user_watch_episodes = k]

\* C6: the watched duration is the sum, over exactly the entries whose
\* user_watch_episodes is not null, of user_watch_episodes *
\* episode_avg_duration (an entry without a duration has no product to add):
\* a null entry adds nothing, an entry with 0 watched episodes adds 0.
C6_WatchedDurationSumsTracked ==
    Passed("durations") =>
        LET t == user_animes
            tracked == {i \in 1..Len(t) : t[i].user_watch_episodes # None}
            term == [i \in 1..Len(t) |->
                        IF t[i].episode_avg_duration = None THEN 0
                        ELSE t[i].user_watch_episodes * t[i].episode_avg_duration]
        IN  /\ watched_duration = SumOver(tracked, term)
            /\ \A i \in 1..Len(t) :
                  t[i].user_watch_episodes \in {None, 0} =>
                      watched_duration = WatchedDuration(WithoutRow(t, i))

C6_Witness ==
    /\ Passed("durations")
    /\ watched_duration > 0
    /\ \E i, j \in 1..Len(user_animes) :
          /\ user_animes[i].user_watch_episodes = None
          /\ user_animes[i].episodes = 12
          /\ user_animes[i].episode_avg_duration = 24
          /\ user_animes[j].user_watch_episodes = 0
          /\ user_animes[j].episode_avg_duration = 24

\* C7: the to-watch duration is the sum over all entries of
\* max(episodes, user_watch_episodes) * episode_avg_duration, a null count
\* leaving the other as the maximum; an entry with user_watch_episodes null,
\* episodes 12 and a 24 min episode adds 288 min to it and nothing to the
\* watched duration.
C7_ToWatchDurationSumsMax ==
    Passed("durations") =>
        LET t == user_animes
            counted == {i \in 1..Len(t) :
                           /\ t[i].episode_avg_duration # None
                           /\ \/ t[i].episodes # None
                              \/ t[i].user_watch_episodes # None}
            most(i) == IF t[i].episodes = None THEN t[i].user_watch_episodes
                       ELSE IF t[i].user_watch_episodes = None THEN t[i].episodes
                       ELSE IF t[i].episodes > t[i].user_watch_episodes
                            THEN t[i].episodes
                            ELSE t[i].user_watch_episodes
            term == [i \in 1..Len(t) |->
                        IF i \in counted
                        THEN most(i) * t[i].episode_avg_duration ELSE 0]
        IN  /\ to_watch_duration = SumOver(counted, term)
            /\ \A i \in 1..Len(t) :
                  (/\ t[i].user_watch_episodes = None
                   /\ t[i].episodes = 12
                   /\ t[i].episode_avg_duration = 24) =>
                      /\ to_watch_duration
                           = ToWatchDuration(WithoutRow(t, i)) + 288
                      /\ watched_duration = WatchedDuration(WithoutRow(t, i))

C7_Witness ==
    /\ Passed("durations")
    /\ to_watch_duration > 288
    /\ watched_duration > 0
    /\ \E i, j \in 1..Len(user_animes) :
          /\ user_animes[i].user_watch_episodes = None
          /\ user_animes[i].episodes = 12
          /\ user_animes[i].episode_avg_duration = 24
          /\ user_animes[j].user_watch_episodes = 13
          /\ user_animes[j].episodes = 12
          /\ user_animes[j].episode_avg_duration = 24

\* The values a raised user_watch_episodes takes.
RaisedCounts == {0, 1, 5, 6, 13, 14}

\* C9: raising one entry's user_watch_episodes (from null or k to a larger
\* k'), all else fixed, does not lower the watched duration.
C9_WatchedDurationMonotone ==
    Passed("durations") =>
        \A i \in 1..Len(user_animes) : \A k \in RaisedCounts :
            k > user_animes[i].user_watch_episodes =>
                WatchedDuration(WithWatched(user_animes, i, k)) >= watched_duration

C9_Witness ==
    /\ Passed("durations")
    /\ \E i, j \in 1..Len(user_animes) :
          /\ user_animes[i].user_watch_episodes = 5
          /\ user_animes[i].episode_avg_duration = 24
          /\ WatchedDuration(WithWatched(user_animes, i, 13))
               = watched_duration + 8 * 24
          /\ user_animes[j].user_watch_episodes = None
          /\ user_animes[j].episode_avg_duration = 24
          /\ WatchedDuration(WithWatched(user_animes, j, 0)) = watched_duration

\* C10: watched duration <= to-watch duration, so the ratio the page writes
\* (it is written when the to-watch duration is not zero) lies in [0, 1].
C10_WatchedRatioInUnitInterval ==
    /\ Passed("durations") => 0 <= watched_duration
                              /\ watched_duration <= to_watch_duration
    /\ <<"watched", "ratio">> \in page =>
          /\ to_watch_duration # 0
          /\ watched_ratio = Frac(watched_duration, to_watch_duration)
          /\ ~FracLess(watched_ratio, Frac(0, 1))
          /\ ~FracLess(Frac(1, 1), watched_ratio)
          /\ ~IsNaN(watched_ratio)

C10_Witness ==
    /\ <<"watched", "ratio">> \in page
    /\ FracLess(Frac(0, 1), watched_ratio)
    /\ FracLess(watched_ratio, Frac(1, 1))
    /\ \E i \in 1..Len(user_animes) :
          /\ user_animes[i].user_watch_episodes = 13
          /\ user_animes[i].episodes = 12
          /\ user_animes[i].episode_avg_duration = 24

----------------------------------------------------------------------------
(* score_box_plot (lines 200-245) on every table of up to MaxBoxRows rows *)

MaxBoxRows == 9

BoxRow(usr, g, t) == Row(None, None, None, None, usr, g, t, NoneList, NoneList)

BoxRowSeq ==
    <<BoxRow(6, <<"Action">>, NoneList),
      BoxRow(9, <<"Action", "Drama">>, <<"Drama">>),
      BoxRow(None, <<"Action">>, <<"Drama">>),
      BoxRow(6, NoneList, NoneList),
      BoxRow(6, <<>>, <<>>),
      BoxRow(9, <<"Drama", "Drama">>, NoneList),
      BoxRow(3, <<"Drama">>, <<"Action">>)>>

NextBox ==
    \/ LoadInOrder(BoxRowSeq, MaxBoxRows)
    \/ Enter("box_genres")
    \/ \E key \in Keys : ScoreBoxPlot(key)

SpecBox == Init /\ [][NextBox]_vars

\* The samples of tag value v in column key: one per occurrence of v in the
\* tag list of an entry that has a user score.
Samples(t, key, v) ==
    UNION {IF t[i].user_scored = None \/ t[i][key] = NoneList THEN {}
           ELSE {<<i, j>> : j \in {j \in 1..Len(t[i][key]) : t[i][key][j] = v}} :
           i \in 1..Len(t)}

\* The entries with a user score whose tag list holds v.
ScoredEntriesWith(t, key, v) == {s[1] : s \in Samples(t, key, v)}

NoRepeatedTag(t, key) ==
    \A v \in Tags :
        Cardinality(Samples(t, key, v)) = Cardinality(ScoredEntriesWith(t, key, v))

----------------------------------------------------------------------------
(* Rank scaling and normie-ness (lines 247-290) on every small table *)

MaxScoreRows == 3

ScoreRows ==
    {Row(None, None, None, avg, usr, NoneList, NoneList, NoneList, NoneList) :
        avg \in {None, 6, 7, 8}, usr \in {None, 1, 2, 3}}

NextScale ==
    \/ Load(ScoreRows, MaxScoreRows)
    \/ Enter("unpopular")
    \/ Unpopular
    \/ Normie

SpecScale == Init /\ [][NextScale]_vars

\* The entries that have both a catalog score and a user score.
BothScored == {i \in 1..Len(user_animes) :
                  /\ user_animes[i].scored_avg # None
                  /\ user_animes[i].user_scored # None}

\* The scaled values of column `scaled` are a permutation of
\* 0, 1/(n-1), ..., 1.
IsRankPermutation(u, scaled) ==
    \E p \in Permutations(1..Len(u)) :
        \A i \in 1..Len(u) : FracEq(u[i][scaled], Frac(p[i] - 1, Len(u) - 1))

PairwiseDistinct(u, col) ==
    \A i, j \in 1..Len(u) : i # j => u[i][col] # u[j][col]

ScaledColumns == {<<"user_scored", "user_scored_scaled">>,
                  <<"scored_avg", "scored_avg_scaled">>}

\* C1 as claimed: for n >= 2 the scaled values of a score column are a
\* permutation of {0, 1/(n-1), ..., 1}, whether or not entries tie.
C1_ScaledIsPermutationAlways ==
    (Passed("unpopular") /\ Len(unpopular_data) >= 2) =>
        \A c \in ScaledColumns : IsRankPermutation(unpopular_data, c[2])

\* C1 amended: for n >= 2 the scaled values of a column of pairwise distinct
\* scores are a permutation of {0, 1/(n-1), ..., 1}; in every column a
\* greater score has a greater scaled value, entries with the same score have
\* the same scaled value (the mean of the ranks they span), and every scaled
\* value lies in [0, 1].
C1_ScaledIsPermutationWhenDistinct ==
    (Passed("unpopular") /\ Len(unpopular_data) >= 2) =>
        LET u == unpopular_data
        IN  \A c \in ScaledColumns :
                /\ PairwiseDistinct(u, c[1]) => IsRankPermutation(u, c[2])
                /\ \A i, j \in 1..Len(u) :
                      /\ u[i][c[1]] = u[j][c[1]] => FracEq(u[i][c[2]], u[j][c[2]])
                      /\ u[i][c[1]] < u[j][c[1]] => FracLess(u[i][c[2]], u[j][c[2]])
                /\ \A i \in 1..Len(u) :
                      /\ ~FracLess(u[i][c[2]], Frac(0, 1))
                      /\ ~FracLess(Frac(1, 1), u[i][c[2]])
                      /\ ~IsNaN(u[i][c[2]])

C1_Witness ==
    /\ Passed("unpopular")
    /\ Len(unpopular_data) = 3
    /\ PairwiseDistinct(unpopular_data, "user_scored")
    /\ IsRankPermutation(unpopular_data, "user_scored_scaled")
    /\ ~PairwiseDistinct(unpopular_data, "scored_avg")
    /\ ~IsRankPermutation(unpopular_data, "scored_avg_scaled")

\* The popularity-bias computation has come to its end, with or without an
\* exception.
PopularityOver == Passed("normie") \/ (pc = "normie" /\ error # NoError)

\* C3: with n <= 1 entries having both scores, the popularity-bias
\* computation fails with InsufficientDataError and produces no NaN scaled
\* score or normie-ness.
C3_InsufficientDataIsNamedError ==
    Cardinality(BothScored) <= 1 =>
        /\ Passed("unpopular") =>
              \A i \in 1..Len(unpopular_data) :
                  /\ ~IsNaN(unpopular_data[i].user_scored_scaled)
                  /\ ~IsNaN(unpopular_data[i].scored_avg_scaled)
        /\ PopularityOver =>
              /\ error = "InsufficientDataError"
              /\ <<"normie", "ness">> \notin page

----------------------------------------------------------------------------
(* Co-occurrence (lines 332-384) on every small table *)

MaxOccRows == 3

OccRows ==
    {Row(None, None, None, None, None, g, t, NoneList, NoneList) :
        g \in {NoneList, <<>>, <<"Action">>, <<"Drama", "Action">>,
               <<"Action", "Drama", "Action">>, <<"Drama", "Comedy", "Action">>},
        t \in {NoneList, <<"Drama", "Action">>}}

NextOcc ==
    \/ Load(OccRows, MaxOccRows)
    \/ Enter("occ_genres")
    \/ \E feature \in Features : DrawCoOccurrence(feature)

SpecOcc == Init /\ [][NextOcc]_vars

\* The entries whose list of `feature` holds both tag values.
EntriesWithBoth(t, feature, a, b) ==
    {i \in 1..Len(t) :
        /\ t[i][feature] # NoneList
        /\ \E j, k \in 1..Len(t[i][feature]) :
              t[i][feature][j] = a /\ t[i][feature][k] = b}

\* C2: co_occurrence counts a pair of distinct tag values once per entry that
\* holds both, however often the entry repeats a tag, and never returns a
\* pair of one tag value with itself: the entry
\* ["Action", "Drama", "Action"] alone gives ("Action", "Drama") with count 1.
C2_DuplicateTagsCountOnce ==
    \A f \in Features :
        Passed(OccPc(f)) =>
            /\ \A n \in 1..Len(occ_data[f]) :
                  LET o == occ_data[f][n]
                  IN  /\ o.feature1 # o.feature2
                      /\ o.count = Cardinality(EntriesWithBoth(
                             user_animes, f, o.feature1, o.feature2))
            /\ FeatureColumn(user_animes, f) = <<<<"Action", "Drama", "Action">>>> =>
                  occ_data[f] = <<[feature1 |-> "Action", feature2 |-> "Drama",
                                   count |-> 1]>>

----------------------------------------------------------------------------
(* The whole script, from "Launch analysis" to the last chart *)

MaxPageRows == 3

PageRows ==
    {Row(12, 5, 24, 7, 8, <<"Action", "Drama">>, <<"Drama", "Comedy">>,
         <<"Action">>, NoneList),
     Row(None, None, None, None, None, NoneList, NoneList, NoneList, NoneList),
     Row(12, 3, 24, 8, 7, <<"Action">>, <<>>, NoneList, NoneList),
     Row(1, 1, 24, 6, 9, <<"Drama", "Action">>, NoneList, NoneList, NoneList),
     Row(0, 0, 24, 6, 6, <<"Action", "Drama">>, <<"Action", "Drama">>,
         NoneList, NoneList)}

\* Line 62: the button starts the run; the first statistic is at line 113.
Launch == Enter("durations")

NextPage ==
    \/ Load(PageRows, MaxPageRows)
    \/ Launch
    \/ ComputeDurations
    \/ WriteWatched
    \/ \E key \in Keys : ScoreBoxPlot(key)
    \/ Unpopular
    \/ Normie
    \/ \E feature \in Features : DrawCoOccurrence(feature)

SpecPage == Init /\ [][NextPage]_vars

\* Statement l has run, to its end or to an exception.
Ran(l) == Passed(l) \/ (pc = l /\ error # NoError)

\* C4: a statistic whose input is empty after filtering gives an empty table
\* and raises nothing: the score breakdown without a user-scored entry, the
\* popularity-bias table without an entry that has both scores, the
\* co-occurrence table without an entry that carries two tag values.
C4_EmptyInputGivesEmptyTable ==
    /\ \A key \in Keys :
          (Ran(BoxPc(key)) /\ \A i \in 1..Len(user_animes) :
                                  user_animes[i].user_scored = None) =>
              /\ box_data[key] = <<>>
              /\ <<"box", key>> \in page
    /\ (Ran("unpopular") /\ BothScored = {}) =>
          /\ unpopular_data = <<>>
          /\ <<"unpopular", "table">> \in page
    /\ \A f \in Features :
          (Ran(OccPc(f)) /\ CoOccurrences(FeatureColumn(user_animes, f)) = <<>>) =>
              /\ occ_data[f] = <<>>
              /\ error = NoError

\* What each statement writes to the page.
Outputs(l) ==
    CASE l = "ratio" -> {<<"watched", "hours">>, <<"watched", "ratio">>}
      [] l = "box_genres" -> {<<"box", "genres">>}
      [] l = "box_themes" -> {<<"box", "themes">>}
      [] l = "box_studios" -> {<<"box", "studios">>}
      [] l = "box_demographics" -> {<<"box", "demographics">>}
      [] l = "unpopular" -> {<<"unpopular", "table">>}
      [] l = "normie" -> {<<"normie", "ness">>, <<"unpopular", "chart">>}
      [] l = "occ_genres" -> {<<"co_occurrence", "genres">>}
      [] l = "occ_themes" -> {<<"co_occurrence", "themes">>}
      [] OTHER -> {}

\* C5: when one statistic fails (the watched ratio on a zero to-watch
\* duration, ...), every other statistic of the run (score breakdowns,
\* popularity bias, co-occurrence tables) is still produced.
C5_FailureIsPerStatistic ==
    error # NoError =>
        \A n \in 1..Len(Script) :
            Script[n] # pc => Outputs(Script[n]) \subseteq page

====
